---------------------------- MODULE Spec2Model ----------------------------
(***************************************************************************)
(* A model of the news pipeline of scripts/generate_live.py:               *)
(*   fetch_all -> language_filter -> blocks_filter -> enrich ->            *)
(*   score_items -> dedupe -> sort/cap -> compress -> write news_cache.json *)
(*                                                                         *)
(* Text is modelled by TLA+ strings and the regular expressions of the     *)
(* code by operators that scan them character by character.  Floats are    *)
(* modelled by integers counting millionths (score 0.18 is 180000).        *)
(***************************************************************************)
EXTENDS Integers, Sequences, FiniteSets, TLC

VARIABLES
    cfg,        \* the configuration returned by load_cfg
    now,        \* the wall clock read by now_utc(), in whole hours
    served,     \* what feedparser.parse finds at each configured feed
    submitted,  \* how many feeds fetch_all has handed to the executor
    wpc,        \* position of the worker of each feed
    wi,         \* index of the item each worker's loop is about to read
    wentries,   \* the local list `entries` of each worker
    out,        \* the list `out` of fetch_all
    taken,      \* the futures as_completed has yielded
    pc,         \* position of the main thread
    items,      \* the list `items` of collect (and the argument of each stage)
    arg,        \* the list a stage was called with (history, for the claims)
    rows,       \* the result of project
    file,       \* the content of news_cache.json
    link,       \* a URL handed to canonical_url
    canon       \* the successive results of canonical_url on link

fetchVars == <<served, submitted, wpc, wi, wentries, out, taken>>

vars == <<cfg, now, fetchVars, pc, items, arg, rows, file, link, canon>>

None == "None"

----------------------------------------------------------------------------
(* Strings *)

Char(s, i) == SubSeq(s, i, i)

UpperChars == "ABCDEFGHIJKLMNOPQRSTUVWXYZÉ"
LowerChars == "abcdefghijklmnopqrstuvwxyzé"

CharsOf(s) == {Char(s, k) : k \in 1..Len(s)}

LowerTable ==
    [c \in CharsOf(UpperChars) |->
        Char(LowerChars, CHOOSE k \in 1..Len(UpperChars) : Char(UpperChars, k) = c)]

LowerChar(c) == IF c \in DOMAIN LowerTable THEN LowerTable[c] ELSE c

RECURSIVE Lower(_)
Lower(s) == IF s = "" THEN "" ELSE LowerChar(Head(s)) \o Lower(Tail(s))

MinOf(S) == CHOOSE x \in S : \A y \in S : x <= y

MaxOf(S) == CHOOSE x \in S : \A y \in S : x >= y

Smaller(a, b) == IF a < b THEN a ELSE b

\* the length of the longest run of characters outside `stops` starting at i
SpanNot(s, i, stops) ==
    LET hit == {j \in i..Len(s) : Char(s, j) \in stops}
    IN  IF hit = {} THEN (IF i > Len(s) THEN 0 ELSE Len(s) - i + 1)
        ELSE MinOf(hit) - i

\* does p occur in s at position i, ignoring case (p is lower case)
StartsAtI(s, i, p) ==
    /\ i >= 1
    /\ i + Len(p) - 1 <= Len(s)
    /\ Lower(SubSeq(s, i, i + Len(p) - 1)) = p

\* `sub in s` for strings
Contains(s, sub) ==
    \E i \in 1..(Len(s) - Len(sub) + 1) : SubSeq(s, i, i + Len(sub) - 1) = sub

Whitespace == {" ", "\t", "\n"}

\* str.strip()
RECURSIVE Strip(_)
Strip(s) ==
    IF s = "" THEN s
    ELSE IF Head(s) \in Whitespace THEN Strip(Tail(s))
    ELSE IF Char(s, Len(s)) \in Whitespace THEN Strip(SubSeq(s, 1, Len(s) - 1))
    ELSE s

----------------------------------------------------------------------------
(* norm_text *)

\* html.unescape, for the named references amp, lt, gt and quot (with or
\* without the semicolon, in lower or upper case; numeric references are left
\* out); a longer name that starts
\* with one of them is replaced up to that prefix
CharRefs ==
    <<<<"amp", "&">>, <<"lt", "<">>, <<"gt", ">">>, <<"quot", "\"">>,
      <<"AMP", "&">>, <<"LT", "<">>, <<"GT", ">">>, <<"QUOT", "\"">>>>

RefOf(name) ==
    LET bare == IF name # "" /\ Char(name, Len(name)) = ";"
                THEN SubSeq(name, 1, Len(name) - 1) ELSE name
        at == {k \in 1..Len(CharRefs) : CharRefs[k][1] = bare}
    IN  IF at = {} THEN "" ELSE CharRefs[MinOf(at)][2]

\* replace_charref of html.unescape on the text matched after the "&"
ReplaceCharRef(name) ==
    IF RefOf(name) # "" THEN RefOf(name)
    ELSE LET pre == {x \in 2..(Len(name) - 1) :
                        /\ Char(name, x) # ";"
                        /\ RefOf(SubSeq(name, 1, x)) # ""}
         IN  IF pre = {} THEN "&" \o name
             ELSE RefOf(SubSeq(name, 1, MaxOf(pre)))
                  \o SubSeq(name, MaxOf(pre) + 1, Len(name))

NameStops == {"\t", "\n", " ", "<", "&", "#", ";"}

RECURSIVE Unescape(_, _)
Unescape(s, i) ==
    IF i > Len(s) THEN ""
    ELSE IF Char(s, i) # "&" THEN Char(s, i) \o Unescape(s, i + 1)
    ELSE LET run == Smaller(SpanNot(s, i + 1, NameStops), 32)
             semi == IF i + run + 1 <= Len(s) /\ Char(s, i + run + 1) = ";" THEN 1 ELSE 0
         IN  IF run = 0 THEN "&" \o Unescape(s, i + 1)
             ELSE ReplaceCharRef(SubSeq(s, i + 1, i + run + semi))
                  \o Unescape(s, i + run + semi + 1)

\* re.sub(r"<[^>]+>", " ", s)
RECURSIVE StripTags(_, _)
StripTags(s, i) ==
    IF i > Len(s) THEN ""
    ELSE LET n == SpanNot(s, i + 1, {">"})
         IN  IF Char(s, i) = "<" /\ n >= 1 /\ i + n + 1 <= Len(s)
             THEN " " \o StripTags(s, i + n + 2)
             ELSE Char(s, i) \o StripTags(s, i + 1)

\* re.sub(r"\s+", " ", s)
RECURSIVE CollapseSpace(_, _)
CollapseSpace(s, i) ==
    IF i > Len(s) THEN ""
    ELSE IF Char(s, i) \in Whitespace
         THEN " " \o CollapseSpace(s, i + SpanNot(s, i, CharsOf(s) \ Whitespace))
         ELSE Char(s, i) \o CollapseSpace(s, i + 1)

norm_text(s) == CollapseSpace(StripTags(Unescape(Strip(s), 1), 1), 1)

----------------------------------------------------------------------------
(* canonical_url *)

QueryDelims == {"?", "&"}

\* ([?&])utm_[^=&]+=[^&]+ matched at i: the index of its last character, else 0
UtmMatchEnd(s, i) ==
    IF i <= Len(s) /\ Char(s, i) \in QueryDelims /\ StartsAtI(s, i + 1, "utm_")
    THEN LET n1 == SpanNot(s, i + 5, {"=", "&"})
             e  == i + 5 + n1
         IN  IF n1 >= 1 /\ e <= Len(s) /\ Char(s, e) = "="
             THEN LET n2 == SpanNot(s, e + 1, {"&"})
                  IN  IF n2 >= 1 THEN e + n2 ELSE 0
             ELSE 0
    ELSE 0

RECURSIVE SubUtm(_, _)
SubUtm(s, i) ==
    IF i > Len(s) THEN ""
    ELSE LET e == UtmMatchEnd(s, i)
         IN  IF e > 0 THEN Char(s, i) \o SubUtm(s, e + 1)
             ELSE Char(s, i) \o SubUtm(s, i + 1)

TrackingParams ==
    <<"fbclid", "gclid", "mc_cid", "mc_eid", "oref", "guce_referrer",
      "guce_referrer_sig">>

\* ([?&])(fbclid|...)=[^&]+ matched at i: the index of its last character, else 0
TrackMatchEnd(s, i) ==
    IF i <= Len(s) /\ Char(s, i) \in QueryDelims
    THEN LET ok == {k \in 1..Len(TrackingParams) :
                       /\ StartsAtI(s, i + 1, TrackingParams[k] \o "=")
                       /\ SpanNot(s, i + 2 + Len(TrackingParams[k]), {"&"}) >= 1}
         IN  IF ok = {} THEN 0
             ELSE LET k == MinOf(ok)
                      e == i + 1 + Len(TrackingParams[k])
                  IN  e + SpanNot(s, e + 1, {"&"})
    ELSE 0

RECURSIVE SubTrack(_, _)
SubTrack(s, i) ==
    IF i > Len(s) THEN ""
    ELSE LET e == TrackMatchEnd(s, i)
         IN  IF e > 0 THEN Char(s, i) \o SubTrack(s, e + 1)
             ELSE Char(s, i) \o SubTrack(s, i + 1)

\* re.sub(r"[?&]$", "", link)
StripTrailingDelim(s) ==
    IF Len(s) >= 1 /\ Char(s, Len(s)) \in QueryDelims
    THEN SubSeq(s, 1, Len(s) - 1)
    ELSE s

canonical_url(l) ==
    IF l = "" THEN l
    ELSE StripTrailingDelim(SubTrack(SubUtm(l, 1), 1))

----------------------------------------------------------------------------
(* Entries and configuration *)

\* it.get(f): the field, or None when the entry has no such field
Get(it, f) == IF f \in DOMAIN it THEN it[f] ELSE None

\* it.get(f, d)
GetOr(it, f, d) == IF f \in DOMAIN it THEN it[f] ELSE d

\* published_at is '' (no timestamp), an ISO timestamp (modelled by the hour it
\* denotes) or a string dateutil cannot parse
NoDate == [k |-> "empty", h |-> 0]
At(hour) == [k |-> "iso", h |-> hour]
Junk == [k |-> "junk", h |-> 0]

\* window_hours: a finite number of hours, or float('inf')
Hours(n) == [inf |-> FALSE, h |-> n]
Unbounded == [inf |-> TRUE, h |-> 0]

\* the defaults load_cfg fills in
DefaultCfg ==
    [ feeds |-> <<>>,
      per_feed_max |-> 20,
      overall_max |-> 120,
      language_allowlist |-> <<"fr", "en">>,
      block_keywords |-> <<>>,
      boost_keywords |-> <<>>,
      source_priorities |-> <<>>,
      deduplicate |-> [mode |-> "title+url+canonical", window_hours |-> Hours(48)],
      compress |-> [target |-> 40, method |-> "salience+diversity",
                    diversity_axes |-> <<"country", "theme", "source">>],
      scoring |-> [freshness_half_life_hours |-> 18],
      output |-> [include_fields |-> <<"title", "summary", "source", "published_at",
                                       "byline", "country_guess", "theme", "entities",
                                       "url">>] ]

----------------------------------------------------------------------------
(* domain_from_source_url *)

\* https?://([^/]+)/? : the places where the pattern matches
SchemeLen(s, i) ==
    IF i + 6 <= Len(s) /\ SubSeq(s, i, i + 6) = "http://" THEN 7
    ELSE IF i + 7 <= Len(s) /\ SubSeq(s, i, i + 7) = "https://" THEN 8
    ELSE 0

HostMatches(s) ==
    {i \in 1..Len(s) : SchemeLen(s, i) > 0 /\ SpanNot(s, i + SchemeLen(s, i), {"/"}) >= 1}

\* str.replace(old, "")
RECURSIVE RemoveAll(_, _)
RemoveAll(s, old) ==
    IF Len(s) < Len(old) THEN s
    ELSE IF SubSeq(s, 1, Len(old)) = old
         THEN RemoveAll(SubSeq(s, Len(old) + 1, Len(s)), old)
         ELSE Head(s) \o RemoveAll(Tail(s), old)

domain_from_source_url(src_url) ==
    LET m == HostMatches(src_url)
        host == IF m = {} THEN src_url
                ELSE LET i == MinOf(m)
                         b == i + SchemeLen(src_url, i)
                     IN  Lower(SubSeq(src_url, b, b + SpanNot(src_url, b, {"/"}) - 1))
    IN  RemoveAll(host, "www.")

----------------------------------------------------------------------------
(* fetch_one_feed.  A feed is what feedparser.parse finds at its URL:
     [status, feed, entries]
   status "raise" is a parse that raises; an entry whose field "broken" is TRUE
   carries a value the normalisation code raises on (a title that is no string:
   norm_text calls .strip() on it). *)

\* a or b or ...: the first value of the entry among the fields that is not empty
RECURSIVE FirstText(_, _)
FirstText(e, fields) ==
    IF fields = <<>> THEN ""
    ELSE IF Head(fields) \in DOMAIN e /\ e[Head(fields)] # ""
         THEN e[Head(fields)]
         ELSE FirstText(e, Tail(fields))

\* parse_date: the first of the fields that holds a date dateutil (or datetime)
\* accepts; None is modelled by NoDate
RECURSIVE FirstDate(_, _)
FirstDate(e, fields) ==
    IF fields = <<>> THEN NoDate
    ELSE IF Head(fields) \in DOMAIN e /\ e[Head(fields)].k = "iso"
         THEN e[Head(fields)]
         ELSE FirstDate(e, Tail(fields))

parse_date(e) ==
    LET d == FirstDate(e, <<"published", "updated", "created">>)
    IN  IF d.k = "iso" THEN d
        ELSE FirstDate(e, <<"published_parsed", "updated_parsed">>)

\* re.sub(r'^https?://(www\.)?', '', source).split('/')[0]
HostOfSource(source) ==
    LET n == SchemeLen(source, 1)
        rest == SubSeq(source, n + 1, Len(source))
        bare == IF Len(rest) >= 4 /\ SubSeq(rest, 1, 4) = "www." /\ n > 0
                THEN SubSeq(rest, 5, Len(rest)) ELSE rest
    IN  SubSeq(bare, 1, SpanNot(bare, 1, {"/"}))

\* line 165
Retains(title, url) == title # "" /\ url # ""

\* lines 167-184: the dict of one retained item
EntryOf(d, feed_url, e) ==
    LET source == IF FirstText(d.feed, <<"link">>) # "" THEN d.feed["link"] ELSE feed_url
        ftitle == norm_text(FirstText(d.feed, <<"title">>))
    IN  [ title |-> norm_text(FirstText(e, <<"title">>)),
          url |-> canonical_url(FirstText(e, <<"link">>)),
          summary |-> norm_text(FirstText(e, <<"summary", "description">>)),
          published_at |-> parse_date(e),
          byline |-> norm_text(FirstText(e, <<"author", "creator">>)),
          source |-> IF ftitle # "" THEN ftitle ELSE HostOfSource(source),
          source_url |-> source,
          language_hint |-> FirstText(d.feed, <<"language", "dc_language">>) ]

Broken(e) == "broken" \in DOMAIN e /\ e["broken"]

\* d.entries[:per_feed_max]
SliceLen(d, per_feed_max) == Smaller(Len(d.entries), per_feed_max)

Feeds == 1..Len(cfg.feeds)

\* min(16, max(4, len(feeds)))
MaxWorkers ==
    LET n == Len(cfg.feeds)
    IN  Smaller(16, IF n > 4 THEN n ELSE 4)

Running == {i \in Feeds : wpc[i] \in {"parse", "loop"}}

\* ex.submit(fetch_one_feed, u, per_feed_max), feed after feed
Submit ==
    /\ pc = "fetch_all"
    /\ submitted < Len(cfg.feeds)
    /\ submitted' = submitted + 1
    /\ wpc' = [wpc EXCEPT ![submitted + 1] = "queued"]
    /\ UNCHANGED <<cfg, now, served, wi, wentries, out, taken, pc, items, arg, rows,
                   file, link, canon>>

AllSubmitted ==
    /\ pc = "fetch_all"
    /\ submitted = Len(cfg.feeds)
    /\ pc' = "as_completed"
    /\ UNCHANGED <<cfg, now, fetchVars, items, arg, rows, file, link, canon>>

\* a pool thread takes the oldest queued call
Start(i) ==
    /\ wpc[i] = "queued"
    /\ \A j \in 1..(i - 1) : wpc[j] # "queued"
    /\ Cardinality(Running) < MaxWorkers
    /\ wpc' = [wpc EXCEPT ![i] = "parse"]
    /\ UNCHANGED <<cfg, now, served, submitted, wi, wentries, out, taken, pc, items,
                   arg, rows, file, link, canon>>

\* lines 156-161: a parse that raises is logged and the worker returns (url, [])
Parse(i) ==
    /\ wpc[i] = "parse"
    /\ wpc' = [wpc EXCEPT ![i] = IF served[i].status = "raise" THEN "done" ELSE "loop"]
    /\ UNCHANGED <<cfg, now, served, submitted, wi, wentries, out, taken, pc, items,
                   arg, rows, file, link, canon>>

\* lines 162-185: one turn of the loop, or the return after the last item; an
\* exception raised by the body leaves the worker and is kept by its future
LoopStep(i) ==
    /\ wpc[i] = "loop"
    /\ IF wi[i] > SliceLen(served[i], cfg.per_feed_max)
       THEN /\ wpc' = [wpc EXCEPT ![i] = "done"]
            /\ UNCHANGED <<wi, wentries>>
       ELSE LET e == served[i].entries[wi[i]]
            IN  IF Broken(e)
                THEN /\ wpc' = [wpc EXCEPT ![i] = "raised"]
                     /\ UNCHANGED <<wi, wentries>>
                ELSE LET it == EntryOf(served[i], cfg.feeds[i], e)
                     IN  /\ wentries' =
                              [wentries EXCEPT ![i] =
                                  IF Retains(it["title"], it["url"])
                                  THEN Append(@, it) ELSE @]
                         /\ wi' = [wi EXCEPT ![i] = @ + 1]
                         /\ UNCHANGED wpc
    /\ UNCHANGED <<cfg, now, served, submitted, out, taken, pc, items, arg, rows,
                   file, link, canon>>

\* as_completed yielding a finished future whether or not it did before
YieldsAgain(i) == wpc[i] \in {"done", "raised"}

\* as_completed yields a finished future that it has not yielded yet
Yields(i) == wpc[i] \in {"done", "raised"} /\ i \notin taken

\* lines 193-195: fut.result() returns the worker's list, or raises what the
\* worker raised; the exception leaves the loop
Collect(i) ==
    /\ pc = "as_completed"
    /\ i \in Feeds
    /\ Yields(i)
    /\ taken' = taken \cup {i}
    /\ IF wpc[i] = "raised"
       THEN pc' = "unwinding" /\ UNCHANGED out
       ELSE out' = out \o wentries[i] /\ UNCHANGED pc
    /\ UNCHANGED <<cfg, now, served, submitted, wpc, wi, wentries, items, arg, rows,
                   file, link, canon>>

Finished(i) == wpc[i] \in {"done", "raised"}

\* the with block waits for every worker, and then the exception leaves
\* fetch_all, collect and the script
Crash ==
    /\ pc = "unwinding"
    /\ \A i \in Feeds : Finished(i)
    /\ pc' = "crashed"
    /\ UNCHANGED <<cfg, now, fetchVars, items, arg, rows, file, link, canon>>

\* lines 196-197 and collect, step 1
FetchReturn ==
    /\ pc = "as_completed"
    /\ taken = Feeds
    /\ items' = out
    /\ arg' = <<>>
    /\ pc' = "language_filter"
    /\ UNCHANGED <<cfg, now, fetchVars, rows, file, link, canon>>

FetchStep ==
    \/ Submit
    \/ AllSubmitted
    \/ \E i \in Feeds : Start(i)
    \/ \E i \in Feeds : Parse(i)
    \/ \E i \in Feeds : LoopStep(i)
    \/ \E i \in Feeds : Collect(i)
    \/ Crash
    \/ FetchReturn

----------------------------------------------------------------------------
(* score_items.  Scores count millionths; recency and priorities count
   thousandths, so that their product counts millionths. *)

\* pow(0.5, age_h / max(1e-6, half_life_h)) in thousandths, for an age that is
\* a whole number of half-lives; a half-life of zero or less is raised to 1e-6
\* hours, and the power underflows to 0.0 for any positive age
Halve(x, n) == IF n >= 10 THEN 0 ELSE x \div (2 ^ n)

Pow05(age_h, half_life_h) ==
    IF half_life_h <= 0 THEN (IF age_h = 0 THEN 1000 ELSE 0)
    ELSE Halve(1000, age_h \div half_life_h)

recency_score(published_at, half_life_h, clock) ==
    IF published_at.k = "empty" THEN 300
    ELSE IF published_at.k = "junk" THEN 300
    ELSE LET age_h == IF clock - published_at.h < 0 THEN 0 ELSE clock - published_at.h
         IN  Pow05(age_h, half_life_h)

\* re.search(literal, text, flags=re.I)
SearchI(text, lit) ==
    \E i \in 1..(Len(text) - Len(lit) + 1) : StartsAtI(text, i, Lower(lit))

\* str.split(sep)
RECURSIVE Split(_, _)
Split(s, sep) ==
    LET at == {i \in 1..(Len(s) - Len(sep) + 1) : SubSeq(s, i, i + Len(sep) - 1) = sep}
    IN  IF at = {} THEN <<s>>
        ELSE LET i == MinOf(at)
             IN  <<SubSeq(s, 1, i - 1)>> \o Split(SubSeq(s, i + Len(sep), Len(s)), sep)

\* re.escape(term).replace("\\*", ".*") searched in text: the literal pieces
\* of the term occur in text in their order, from position `from` on
RECURSIVE PiecesFrom(_, _, _)
PiecesFrom(text, pieces, from) ==
    IF pieces = <<>> THEN TRUE
    ELSE LET p == Lower(Head(pieces))
             at == {i \in from..(Len(text) - Len(p) + 1) : StartsAtI(text, i, p)}
         IN  at # {} /\ PiecesFrom(text, Tail(pieces), MinOf(at) + Len(p))

\* lines 265-274: does one boost term match the text
TermMatches(text, term) ==
    IF Contains(term, " OR ")
    THEN LET alts == Split(term, " OR ")
         IN  \E a \in 1..Len(alts) : SearchI(text, Strip(alts[a]))
    ELSE IF Contains(term, "*")
    THEN PiecesFrom(text, Split(term, "*"), 1)
    ELSE SearchI(text, term)

KeywordStep == 300000
KeywordCap == 1500000

RECURSIVE BoostSum(_, _)
BoostSum(text, boosts) ==
    IF boosts = <<>> THEN 0
    ELSE (IF TermMatches(text, Head(boosts)) THEN KeywordStep ELSE 0)
         + BoostSum(text, Tail(boosts))

keyword_boost(text, boosts) ==
    IF boosts = <<>> THEN 0
    ELSE Smaller(BoostSum(text, boosts), KeywordCap)

rule_boosts(text, country, theme) ==
    (IF theme \in {"Nucléaire", "Diplomatie/Sanctions"} THEN 300000 ELSE 0)
    + (IF country \in {"Iran", "Israël/Palestine", "Liban", "Yémen"} THEN 200000 ELSE 0)

\* priorities = {k.lower(): float(v) ...}; priorities.get(dom, 0.6).  The
\* configured mapping is a list of <<domain, priority>> pairs; of two keys that
\* are equal in lower case the later one wins
PriorityOf(pairs, dom) ==
    LET at == {i \in 1..Len(pairs) : Lower(pairs[i][1]) = dom}
    IN  IF at = {} THEN 600 ELSE pairs[MaxOf(at)][2]

\* mutant: the product of recency and priority is not clamped
Unclamped(x) == x

\* max(0.0, x)
ClampZero(x) == IF x < 0 THEN 0 ELSE x

\* lines 291-297
ScoreOf(it, c, clock) ==
    LET text == it["title"] \o " " \o it["summary"]
        rec == recency_score(IF "published_at" \in DOMAIN it THEN it["published_at"]
                             ELSE NoDate,
                             c.scoring.freshness_half_life_hours, clock)
        dom == domain_from_source_url(GetOr(it, "source_url", ""))
        base == PriorityOf(c.source_priorities, dom)
        kwb == keyword_boost(text, c.boost_keywords)
        rb == rule_boosts(text, GetOr(it, "country_guess", "Autres"),
                          GetOr(it, "theme", "Général"))
    IN  ClampZero(rec * base) + kwb + rb

\* it[f] = v on a dict
SetField(it, f, v) == [g \in DOMAIN it \cup {f} |-> IF g = f THEN v ELSE it[g]]

score_items(its, c, clock) ==
    [i \in 1..Len(its) |-> SetField(its[i], "score", ScoreOf(its[i], c, clock))]

\* collect, step 4
ScoreItems ==
    /\ pc = "score_items"
    /\ arg' = items
    /\ items' = score_items(items, cfg, now)
    /\ pc' = "dedupe"
    /\ UNCHANGED <<cfg, now, fetchVars, rows, file, link, canon>>

----------------------------------------------------------------------------
(* dedupe *)

WordChars == "abcdefghijklmnopqrstuvwxyzABCDEFGHIJKLMNOPQRSTUVWXYZ0123456789_éÉ"

WordCharSet == CharsOf(WordChars)

IsWordChar(c) == c \in WordCharSet

\* re.sub(r"\W+", "", title)
RECURSIVE StripNonWord(_)
StripNonWord(s) ==
    IF s = "" THEN ""
    ELSE (IF IsWordChar(Head(s)) THEN Head(s) ELSE "") \o StripNonWord(Tail(s))

RECURSIVE Join(_, _)
Join(parts, sep) ==
    IF parts = <<>> THEN ""
    ELSE IF Len(parts) = 1 THEN parts[1]
    ELSE parts[1] \o sep \o Join(Tail(parts), sep)

\* hashlib.md5(...).hexdigest(): a digest, taken to be free of collisions
md5(s) == <<"md5", s>>

\* lines 308-320: does the window rule let the entry through
InWindow(it, window_h, ref_time) ==
    IF "published_at" \notin DOMAIN it THEN TRUE
    ELSE LET p == it["published_at"]
         IN  IF p.k = "empty" THEN TRUE
             ELSE IF p.k = "junk" THEN TRUE
             ELSE window_h.inf \/ ref_time - p.h <= window_h.h

\* lines 322-329
DedupeKey(it, mode) ==
    LET t == IF Contains(mode, "title")
             THEN <<Lower(StripNonWord(it["title"]))>> ELSE <<>>
        u == IF Contains(mode, "url")
             THEN <<Lower(canonical_url(it["url"]))>> ELSE <<>>
        c == IF Contains(mode, "canonical")
             THEN <<domain_from_source_url(GetOr(it, "source_url", ""))>> ELSE <<>>
    IN  md5(Join(t \o u \o c, "|"))

\* lines 330-331: uniq is a dict, kept here as its (key, value) pairs in
\* insertion order; assigning to a key that is present keeps its place
\* mutants of the comparison: a later equal score replaces; the lower score wins
AtLeast(a, b) == a >= b
Below(a, b) == a < b

Strictly(a, b) == a > b

UniqPut(uniq, k, it) ==
    LET at == {j \in 1..Len(uniq) : uniq[j].k = k}
    IN  IF at = {} THEN Append(uniq, [k |-> k, v |-> it])
        ELSE LET j == MinOf(at)
             IN  IF Strictly(it["score"], uniq[j].v["score"])
                 THEN [uniq EXCEPT ![j] = [k |-> k, v |-> it]]
                 ELSE uniq

\* one turn of the loop of lines 306-331
DedupeStep(uniq, it, mode, window_h, ref_time) ==
    IF ~InWindow(it, window_h, ref_time) THEN uniq
    ELSE UniqPut(uniq, DedupeKey(it, mode), it)

RECURSIVE DedupeLoop(_, _, _, _, _, _)
DedupeLoop(its, i, uniq, mode, window_h, ref_time) ==
    IF i > Len(its) THEN uniq
    ELSE DedupeLoop(its, i + 1, DedupeStep(uniq, its[i], mode, window_h, ref_time),
                    mode, window_h, ref_time)

\* mutant: the keys are collapsed first and the window rule is applied to the
\* survivors
dedupe_window_last(its, c, ref_time) ==
    LET uniq == DedupeLoop(its, 1, <<>>, c.deduplicate.mode, Unbounded, ref_time)
        all == [j \in 1..Len(uniq) |-> uniq[j].v]
    IN  SelectSeq(all, LAMBDA it : InWindow(it, c.deduplicate.window_hours, ref_time))

dedupe(its, c, ref_time) ==
    LET uniq == DedupeLoop(its, 1, <<>>, c.deduplicate.mode,
                           c.deduplicate.window_hours, ref_time)
    IN  [j \in 1..Len(uniq) |-> uniq[j].v]

\* collect, step 5
Dedupe ==
    /\ pc = "dedupe"
    /\ arg' = items
    /\ items' = dedupe(items, cfg, now)
    /\ pc' = "sortcap"
    /\ UNCHANGED <<cfg, now, fetchVars, rows, file, link, canon>>

----------------------------------------------------------------------------
(* language_filter, blocks_filter, enrich *)

\* what langdetect's detect can answer for a text: a language code, or an
\* exception (safe_detect then returns the default)
DetectOutcomes == {"en", "fr", "de", "raise"}

\* (it.get('language_hint') or 'en').split('-')[0].lower()
HintLang(it) ==
    LET hint == IF GetOr(it, "language_hint", "") = "" THEN "en" ELSE it["language_hint"]
    IN  Lower(SubSeq(hint, 1, SpanNot(hint, 1, {"-"})))

\* safe_detect(text, default); the text "title summary" is never empty
safe_detect(outcome, default) == IF outcome = "raise" THEN default ELSE outcome

InList(x, list) == \E n \in 1..Len(list) : list[n] = x

LowerAll(list) == [n \in 1..Len(list) |-> Lower(list[n])]

\* lines 200-210; detected[i] is the answer of detect for item i
RECURSIVE language_filter(_, _, _)
language_filter(its, allow, detected) ==
    IF its = <<>> THEN <<>>
    ELSE LET it == SetField(Head(its), "lang",
                            safe_detect(Head(detected), HintLang(Head(its))))
         IN  (IF InList(it["lang"], LowerAll(allow)) THEN <<it>> ELSE <<>>)
             \o language_filter(Tail(its), allow, Tail(detected))

\* collect, step 2
LanguageFilter ==
    /\ pc = "language_filter"
    /\ \E detected \in [1..Len(items) -> DetectOutcomes] :
           items' = language_filter(items, cfg.language_allowlist, detected)
    /\ arg' = items
    /\ pc' = "blocks_filter"
    /\ UNCHANGED <<cfg, now, fetchVars, rows, file, link, canon>>

TextOf(it) == it["title"] \o " " \o it["summary"]

\* pat.search: one of the escaped words occurs in the text, whatever the case
Blocked(it, block_words) ==
    \E n \in 1..Len(block_words) : SearchI(TextOf(it), block_words[n])

RECURSIVE KeepUnblocked(_, _)
KeepUnblocked(its, block_words) ==
    IF its = <<>> THEN <<>>
    ELSE (IF Blocked(Head(its), block_words) THEN <<>> ELSE <<Head(its)>>)
         \o KeepUnblocked(Tail(its), block_words)

\* lines 212-218
blocks_filter(its, block_words) ==
    IF block_words = <<>> THEN its ELSE KeepUnblocked(its, block_words)

BlocksFilter ==
    /\ pc = "blocks_filter"
    /\ arg' = items
    /\ items' = blocks_filter(items, cfg.block_keywords)
    /\ pc' = "enrich"
    /\ UNCHANGED <<cfg, now, fetchVars, rows, file, link, canon>>

COUNTRY_TAGS ==
    << <<"Iran", <<"iran", "tehran", "isfahan", "qom", "iri", "irgc", "pasdaran">> >>,
       <<"Israël/Palestine", <<"israel", "israeli", "idf", "gaza", "rafah", "hamas",
                               "west bank", "cisjord", "jerusalem", "idf">> >>,
       <<"Liban", <<"lebanon", "lebanese", "hezbollah", "beirut", "south lebanon",
                    "margaliot">> >>,
       <<"Syrie", <<"syria", "syrian", "damascus", "aleppo", "idlib", "daraa",
                    "deir ez-zor">> >>,
       <<"Irak", <<"iraq", "iraqi", "baghdad", "erbil", "kurdistan", "pmf", "hashd">> >>,
       <<"Yémen", <<"yemen", "houthi", "ansar allah", "sanaa", "hudaydah", "aden">> >>,
       <<"Golfe", <<"saudi", "ksa", "riyadh", "emirati", "uae", "abudhabi", "qatar",
                    "doha", "bahrain", "oman", "muscat", "kuwait">> >>,
       <<"Caucase", <<"armenia", "armenian", "yerevan", "azerbaijan", "azerbaijani",
                      "baku", "nagorno", "karabakh", "artsakh", "nakhchivan", "zangezur",
                      "georgia", "tbilisi", "abkhazia", "south ossetia", "ossetia">> >>,
       <<"Égypte/Jordanie", <<"egypt", "cairo", "sinai", "jordan", "amman", "aqaba">> >>,
       <<"Turquie", <<"turkey", "türkiye", "ankara", "istanbul", "pkk", "sdf">> >>,
       <<"Mer Rouge / Maritime", <<"red sea", "mer rouge", "bab al-mandeb", "tanker",
                                   "suez", "hijack", "ais">> >> >>

THEME_TAGS ==
    << <<"Nucléaire", <<"iaea", "aiea", "jcpoa", "centrifuge", "enrichment", "ir-">> >>,
       <<"Sécurité/Conflit", <<"strike", "airstrike", "rocket", "missile", "drone", "uav",
                               "shell", "incursion", "clash">> >>,
       <<"Diplomatie/Sanctions", <<"sanction", "designation", "talks", "negotiation",
                                   "normalis", "e3", "eu", "ofac", "ofsi", "eeas">> >>,
       <<"Humanitaire", <<"ocha", "relief", "displaced", "casualties", "aid", "famine",
                          "hostage", "prisoner exchange">> >>,
       <<"Maritime/Énergie", <<"tanker", "pipeline", "opec", "gas field", "lng", "ais",
                               "strait", "shipping">> >>,
       <<"Politique intérieure", <<"cabinet", "coalition", "knesset", "election",
                                   "parliament", "minister", "dissolution">> >> >>

\* the first tag of the table one of whose keys occurs in the lower-case text
FirstTag(text, tags, default) ==
    LET hit == {n \in 1..Len(tags) :
                   \E k \in 1..Len(tags[n][2]) : Contains(text, tags[n][2][k])}
    IN  IF hit = {} THEN default ELSE tags[MinOf(hit)][1]

tag_country(title, summary) == FirstTag(Lower(title \o " " \o summary), COUNTRY_TAGS, "Autres")

tag_theme(title, summary) == FirstTag(Lower(title \o " " \o summary), THEME_TAGS, "Général")

\* \bword\b, whatever the case: the word occurs with no word character next to
\* it on either side
WordAt(txt, i, word) ==
    /\ StartsAtI(txt, i, Lower(word))
    /\ i = 1 \/ ~IsWordChar(Char(txt, i - 1))
    /\ i + Len(word) > Len(txt) \/ ~IsWordChar(Char(txt, i + Len(word)))

SearchWord(txt, word) == \E i \in 1..Len(txt) : WordAt(txt, i, word)

\* the patterns of extract_entities with p.strip("\\b").upper() of each, in the
\* order sorted(set(ents)) gives them
ENTITY_PATTERNS ==
    << <<"E3", <<"E3">> >>,
       <<"HEZBOLLAH", <<"Hezbollah">> >>,
       <<"HOUTHI", <<"Houthi">> >>,
       <<"IAEA\\B|\\BAIEA", <<"IAEA", "AIEA">> >>,
       <<"IDF", <<"IDF">> >>,
       <<"IRGC\\B|\\BPASDARAN", <<"IRGC", "Pasdaran">> >>,
       <<"OFAC\\B|\\BOFSI\\B|\\BEU", <<"OFAC", "OFSI", "EU">> >>,
       <<"PKK\\B|\\BSDF", <<"PKK", "SDF">> >>,
       <<"RSF", <<"RSF">> >> >>

RECURSIVE EntitiesFrom(_, _)
EntitiesFrom(txt, n) ==
    IF n > Len(ENTITY_PATTERNS) THEN <<>>
    ELSE (IF \E k \in 1..Len(ENTITY_PATTERNS[n][2]) :
                 SearchWord(txt, ENTITY_PATTERNS[n][2][k])
          THEN <<ENTITY_PATTERNS[n][1]>> ELSE <<>>)
         \o EntitiesFrom(txt, n + 1)

extract_entities(txt) == EntitiesFrom(txt, 1)

\* lines 233-237
enrich(its) ==
    [i \in 1..Len(its) |->
        SetField(SetField(SetField(its[i],
            "country_guess", tag_country(its[i]["title"], its[i]["summary"])),
            "theme", tag_theme(its[i]["title"], its[i]["summary"])),
            "entities", extract_entities(TextOf(its[i])))]

\* collect, step 3
Enrich ==
    /\ pc = "enrich"
    /\ arg' = items
    /\ items' = enrich(items)
    /\ pc' = "score_items"
    /\ UNCHANGED <<cfg, now, fetchVars, rows, file, link, canon>>

----------------------------------------------------------------------------
(* compress *)

\* sorted(items, key=lambda x: x['score'], reverse=True): a stable sort, entries
\* of equal score keep their order
\* mutant: the entry is put last, whatever its score
InsertLast(sorted, it) == Append(sorted, it)

RECURSIVE InsertDesc(_, _)
InsertDesc(sorted, it) ==
    IF sorted = <<>> THEN <<it>>
    ELSE IF Head(sorted)["score"] >= it["score"]
         THEN <<Head(sorted)>> \o InsertDesc(Tail(sorted), it)
         ELSE <<it>> \o sorted

RECURSIVE SortDesc(_)
SortDesc(its) ==
    IF its = <<>> THEN <<>>
    ELSE InsertDesc(SortDesc(SubSeq(its, 1, Len(its) - 1)), its[Len(its)])

\* items[:n] for n >= 0
Take(its, n) == SubSeq(its, 1, IF n < Len(its) THEN n ELSE Len(its))

\* (it.get(ax) or '').lower()
AxisValue(it, ax) == IF ax \in DOMAIN it THEN Lower(it[ax]) ELSE ""

\* line 346
AxisKey(it, axes) == [a \in 1..Len(axes) |-> AxisValue(it, axes[a])]

\* seen.get(key, 0)
SeenCount(seen, key) == IF key \in DOMAIN seen THEN seen[key] ELSE 0

\* line 349
Admits(cnt, nchosen, target) == cnt = 0 \/ nchosen < target \div 2

\* line 352
ScanStops(nchosen, target) == nchosen >= target

\* the loop of lines 345-353 from entry i on; st = [chosen, seen]
RECURSIVE GreedyScan(_, _, _, _, _)
GreedyScan(sorted, i, st, target, axes) ==
    IF i > Len(sorted) THEN st
    ELSE LET it == sorted[i]
             key == AxisKey(it, axes)
             cnt == SeenCount(st.seen, key)
             nx == IF Admits(cnt, Len(st.chosen), target)
                   THEN [chosen |-> Append(st.chosen, it),
                         seen |-> [k \in DOMAIN st.seen \cup {key} |->
                                      IF k = key THEN cnt + 1 ELSE st.seen[k]]]
                   ELSE st
         IN  IF ScanStops(Len(nx.chosen), target) THEN nx
             ELSE GreedyScan(sorted, i + 1, nx, target, axes)

\* `it not in chosen`: equality of dicts, field by field
NotIn(it, chosen) == \A j \in 1..Len(chosen) : chosen[j] # it

\* lines 355-357
TopUp(sorted, chosen, target) ==
    IF Len(chosen) < target
    THEN LET pool == SelectSeq(sorted, LAMBDA it : NotIn(it, chosen))
         IN  chosen \o Take(pool, target - Len(chosen))
    ELSE chosen

compress_diverse(its, target, axes) ==
    IF Len(its) <= target THEN its
    ELSE LET sorted == SortDesc(its)
             st == GreedyScan(sorted, 1, [chosen |-> <<>>, seen |-> <<>>], target, axes)
         IN  TopUp(sorted, st.chosen, target)

compress(its, c) ==
    IF c.compress.method = "salience+diversity"
    THEN compress_diverse(its, c.compress.target, c.compress.diversity_axes)
    ELSE Take(SortDesc(its), c.compress.target)

\* collect, step 7, and its return
Compress ==
    /\ pc = "compress"
    /\ arg' = items
    /\ items' = compress(items, cfg)
    /\ pc' = "write"
    /\ UNCHANGED <<cfg, now, fetchVars, rows, file, link, canon>>

\* the hours the clock may advance during a run
MaxTicks == 1

\* now_utc() is read by score_items and again by dedupe: an hour may pass
Tick ==
    /\ pc \in {"score_items", "dedupe"}
    /\ now < 100 + MaxTicks
    /\ now' = now + 1
    /\ UNCHANGED <<cfg, fetchVars, pc, items, arg, rows, file, link, canon>>

\* collect, step 6: sorted(items, key=score, reverse=True)[:overall_max]
SortCap ==
    /\ pc = "sortcap"
    /\ arg' = items
    /\ items' = Take(SortDesc(items), cfg.overall_max)
    /\ pc' = "compress"
    /\ UNCHANGED <<cfg, now, fetchVars, rows, file, link, canon>>

\* lines 433-437: the list collect returned is what json.dumps writes
Write ==
    /\ pc = "write"
    /\ file' = items
    /\ pc' = "done"
    /\ UNCHANGED <<cfg, now, fetchVars, items, arg, rows, link, canon>>

----------------------------------------------------------------------------
(* project *)

\* round(x, 4) of a number of millionths: to the nearest hundred, halves to even
Round4(x) ==
    LET q == x \div 100
        r == x % 100
    IN  IF r > 50 \/ (r = 50 /\ q % 2 = 1) THEN (q + 1) * 100 ELSE q * 100

\* lines 376-396: every branch is it.get(f), with [] as the default of entities
ProjectField(it, f) ==
    IF f = "entities" THEN GetOr(it, "entities", <<>>) ELSE Get(it, f)

Bookkeeping == {"score", "source_url"}

\* mutant: only the names the code knows are projected
KnownFields ==
    {"url", "title", "summary", "source", "published_at", "byline", "country_guess",
     "theme", "entities"}

ProjectRowKnownOnly(it, fields) ==
    [f \in ({fields[n] : n \in 1..Len(fields)} \cap KnownFields) \cup Bookkeeping |->
        IF f = "score" THEN Round4(GetOr(it, "score", 0))
        ELSE IF f = "source_url" THEN Get(it, "source_url")
        ELSE ProjectField(it, f)]

\* lines 374-399: the row of one entry; score and source_url are assigned last
ProjectRow(it, fields) ==
    [f \in {fields[n] : n \in 1..Len(fields)} \cup Bookkeeping |->
        IF f = "score" THEN Round4(GetOr(it, "score", 0))
        ELSE IF f = "source_url" THEN Get(it, "source_url")
        ELSE ProjectField(it, f)]

project(its, c) ==
    [i \in 1..Len(its) |-> ProjectRow(its[i], c.output.include_fields)]

Project ==
    /\ pc = "project"
    /\ rows' = project(items, cfg)
    /\ pc' = "projected"
    /\ UNCHANGED <<cfg, now, fetchVars, items, arg, file, link, canon>>

----------------------------------------------------------------------------
(* The inputs of canonical_url: strings of at most MaxUrlTokens tokens *)

MaxUrlTokens == 5

UrlTokens == {"?", "&", "=", "utm_", "Gclid", "a"}

RECURSIVE TokenStrings(_)
TokenStrings(n) ==
    IF n = 0 THEN {""}
    ELSE LET S == TokenStrings(n - 1)
         IN  S \cup {s \o t : s \in S, t \in UrlTokens}

\* no feed is being fetched
NoFetch ==
    /\ served = <<>> /\ submitted = 0 /\ wpc = <<>> /\ wi = <<>>
    /\ wentries = <<>> /\ out = <<>> /\ taken = {}

Idle ==
    /\ cfg = None /\ now = 0 /\ items = <<>> /\ arg = <<>>
    /\ rows = <<>> /\ file = None
    /\ NoFetch

InitUrl ==
    /\ Idle
    /\ pc = "canonical_url"
    /\ link \in TokenStrings(MaxUrlTokens)
    /\ canon = <<>>

\* one call of canonical_url, on the link first and then on its own result
CanonicalUrl ==
    /\ pc = "canonical_url"
    /\ Len(canon) < 2
    /\ canon' = Append(canon, canonical_url(IF canon = <<>> THEN link ELSE canon[Len(canon)]))
    /\ UNCHANGED <<cfg, now, fetchVars, pc, items, arg, rows, file, link>>

NextUrl == CanonicalUrl

SpecUrl == InitUrl /\ [][NextUrl]_vars

----------------------------------------------------------------------------
\* C3: canonical_url is idempotent: applying it to its own result changes
\* nothing, for every URL (several tracking parameters included).
C3_CanonicalUrlIdempotent ==
    (pc = "canonical_url" /\ Len(canon) = 2) => canon[2] = canon[1]

----------------------------------------------------------------------------
(* The inputs of dedupe: lists of at most MaxDedupeItems scored entries *)

MaxDedupeItems == 3

\* an entry as it leaves score_items
MkEntry(title, url, source_url, published_at, score) ==
    [ title |-> title, url |-> url, summary |-> "", published_at |-> published_at,
      byline |-> "", source |-> domain_from_source_url(source_url),
      source_url |-> source_url, language_hint |-> "", lang |-> "en",
      country_guess |-> "Autres", theme |-> "Général", entities |-> <<>>,
      score |-> score ]

DedupeEntries ==
    { MkEntry("Iran talks",   "http://a.com/1",         "https://www.a.com/feed", At(99),  5000000),
      MkEntry("IRAN: talks!", "http://a.com/1?gclid=5", "https://www.a.com/feed", At(99),  2000000),
      MkEntry("Gaza aid",     "http://b.org/2",         "http://b.org/rss",       At(52),  2000000),
      MkEntry("Iran talks",   "http://a.com/1",         "https://www.a.com/feed", At(50),  9000000),
      MkEntry("Iran talks",   "http://a.com/1",         "https://www.a.com/feed", NoDate,  2000000),
      MkEntry("Gaza aid",     "http://a.com/1",         "http://b.org/rss",       At(99),  5000000),
      MkEntry("Iran talks",   "http://b.org/2",         "https://www.a.com/feed", At(101), 5000000),
      MkEntry("Gaza aid",     "http://b.org/2",         "http://b.org/rss",       Junk,    9000000) }

DedupeModes == {"title+url+canonical", "title", "url", "canonical", ""}

DedupeWindows == {Hours(48), Hours(1), Unbounded}

RECURSIVE ListsOf(_, _)
ListsOf(S, n) ==
    IF n = 0 THEN {<<>>}
    ELSE LET L == ListsOf(S, n - 1)
         IN  L \cup {Append(l, x) : l \in L, x \in S}

InitDedupe ==
    /\ \E m \in DedupeModes, w \in DedupeWindows :
          cfg = [DefaultCfg EXCEPT !.deduplicate = [mode |-> m, window_hours |-> w]]
    /\ now = 100
    /\ pc = "dedupe"
    /\ items \in ListsOf(DedupeEntries, MaxDedupeItems)
    /\ arg = <<>> /\ rows = <<>> /\ file = None
    /\ link = "" /\ canon = <<>>
    /\ NoFetch

NextDedupe == Dedupe

SpecDedupe == InitDedupe /\ [][NextDedupe]_vars

----------------------------------------------------------------------------
(* What the claims about dedupe speak of *)

AfterDedupe == pc = "sortcap"

\* the entry has a timestamp older than window_hours at the run's reference time
Older(it) ==
    /\ it["published_at"].k = "iso"
    /\ ~cfg.deduplicate.window_hours.inf
    /\ now - it["published_at"].h > cfg.deduplicate.window_hours.h

HasNoTimestamp(it) == it["published_at"].k = "empty"

KeyOf(it) == DedupeKey(it, cfg.deduplicate.mode)

\* the composite keys of the input and of the output
RECURSIVE KeysOf(_)
KeysOf(its) == IF its = <<>> THEN <<>> ELSE <<KeyOf(Head(its))>> \o KeysOf(Tail(its))

ArgKeys == KeysOf(arg)
OutKeys == KeysOf(items)

\* the output holds an entry with key k that scores at least sc
Represented(outKeys, k, sc) ==
    \E j \in 1..Len(items) : outKeys[j] = k /\ items[j]["score"] >= sc

\* the entry has a timestamp and it is inside the recency window
InsideWindow(it) == it["published_at"].k = "iso" /\ ~Older(it)

TwoSameCanonicalUrl ==
    /\ AfterDedupe
    /\ Len(arg) = 2
    /\ InsideWindow(arg[1]) /\ InsideWindow(arg[2])
    /\ canonical_url(arg[1]["url"]) = canonical_url(arg[2]["url"])
    /\ arg[1]["score"] # arg[2]["score"]

HigherOfTwo == IF arg[1]["score"] > arg[2]["score"] THEN arg[1] ELSE arg[2]

\* C2 as claimed: of two in-window entries with the same canonical URL and
\* different scores dedupe returns exactly the higher-scoring one, whatever the
\* mode and whatever their titles and source domains.
C2_SameUrlKeepsHigher == TwoSameCanonicalUrl => items = <<HigherOfTwo>>

\* C2 as amended: of two in-window entries with the same canonical URL and
\* different scores dedupe returns exactly the higher-scoring one when the two
\* have the same composite key under the configured mode, and returns both when
\* their keys differ.
C2_SameKeyKeepsHigher ==
    TwoSameCanonicalUrl =>
        IF KeyOf(arg[1]) = KeyOf(arg[2])
        THEN items = <<HigherOfTwo>>
        ELSE items = arg

C2_Witness ==
    /\ TwoSameCanonicalUrl
    /\ cfg.deduplicate.mode = "title+url+canonical"
    /\ arg[1]["url"] # arg[2]["url"]
    /\ KeyOf(arg[1]) = KeyOf(arg[2])
    /\ arg[2]["score"] > arg[1]["score"]
    /\ items = <<arg[2]>>

\* C5: with a finite window no entry older than the window is in the output,
\* an older entry never displaces an in-window entry of the same key (every
\* entry that is not older is represented in the output by an entry of its key
\* that is not older and scores at least as much), and an entry with no
\* timestamp is never removed by the window rule.
C5_WindowBeforeCollapse ==
    AfterDedupe =>
        LET ak == ArgKeys
            ok == OutKeys
        IN  /\ \A j \in 1..Len(items) : ~Older(items[j])
            /\ \A i \in 1..Len(arg) :
                  ~Older(arg[i]) => Represented(ok, ak[i], arg[i]["score"])
            /\ \A i \in 1..Len(arg) :
                  HasNoTimestamp(arg[i]) => Represented(ok, ak[i], arg[i]["score"])

C5_Witness ==
    /\ AfterDedupe
    /\ ~cfg.deduplicate.window_hours.inf
    /\ LET ak == ArgKeys
       IN  \E i, j, n \in 1..Len(arg) :
              /\ Older(arg[i]) /\ ~Older(arg[j]) /\ ~HasNoTimestamp(arg[j])
              /\ ak[i] = ak[j]
              /\ arg[i]["score"] > arg[j]["score"]
              /\ HasNoTimestamp(arg[n])
              /\ \E m \in 1..Len(items) : items[m] = arg[n]

\* C6: the output holds exactly one entry per distinct composite key among the
\* entries the window rule lets through; it is the first entry of the input
\* among those of that key with the maximum score.  With mode 'title' and an
\* unbounded window, three entries of which two share a normalised title with
\* scores 5.0 and 2.0 yield two entries, the 5.0 one among them.
PassedWindow == {i \in 1..Len(arg) : ~Older(arg[i])}

KeyGroup(ak, k) == {i \in PassedWindow : ak[i] = k}

Winner(ak, k) ==
    LET mx == MaxOf({arg[i]["score"] : i \in KeyGroup(ak, k)})
    IN  arg[MinOf({i \in KeyGroup(ak, k) : arg[i]["score"] = mx})]

NormTitle(it) == Lower(StripNonWord(it["title"]))

ThreeWithDuplicateTitle ==
    /\ AfterDedupe
    /\ cfg.deduplicate.mode = "title"
    /\ cfg.deduplicate.window_hours.inf
    /\ Len(arg) = 3
    /\ \E a, b, c \in 1..3 :
          /\ {a, b, c} = {1, 2, 3}
          /\ NormTitle(arg[a]) = NormTitle(arg[b])
          /\ arg[a]["score"] = 5000000 /\ arg[b]["score"] = 2000000
          /\ NormTitle(arg[c]) # NormTitle(arg[a])

C6_OnePerKeyMaxScoreFirst ==
    AfterDedupe =>
        LET ak == ArgKeys
            ok == OutKeys
        IN  /\ Len(items) = Cardinality({ak[i] : i \in PassedWindow})
            /\ \A i \in PassedWindow :
                  /\ Cardinality({j \in 1..Len(items) : ok[j] = ak[i]}) = 1
                  /\ \E j \in 1..Len(items) : items[j] = Winner(ak, ak[i])
            /\ ThreeWithDuplicateTitle =>
                  /\ Len(items) = 2
                  /\ \E j \in 1..2 : items[j]["score"] = 5000000

C6_Witness ==
    /\ ThreeWithDuplicateTitle
    /\ arg[1]["title"] # arg[2]["title"]
    /\ NormTitle(arg[1]) = NormTitle(arg[2])
    /\ Len(items) = 2
    /\ items[1] = arg[1]

\* C6, ties: two entries share key and maximum score and differ otherwise
C6_TieWitness ==
    /\ AfterDedupe
    /\ Len(arg) = 2 /\ Len(items) = 1
    /\ arg[1] # arg[2]
    /\ arg[1]["score"] = arg[2]["score"]
    /\ items[1] = arg[1]

----------------------------------------------------------------------------
(* The inputs of compress: lists of at most MaxCompressItems scored entries
   (the same entry may occur several times) and targets up to MaxTarget *)

MaxCompressItems == 4

MaxTarget == 3

Tagged(score, country, theme, source_url) ==
    [MkEntry("Iran talks", "http://a.com/1", source_url, NoDate, score)
        EXCEPT !["country_guess"] = country, !["theme"] = theme]

CompressEntries ==
    { Tagged(9000000, "Iran",   "Nucléaire", "https://www.a.com/feed"),
      Tagged(7000000, "Iran",   "Nucléaire", "https://www.a.com/feed"),
      Tagged(5000000, "Iran",   "Nucléaire", "https://www.a.com/feed"),
      Tagged(5000000, "Liban",  "Général",   "http://b.org/rss"),
      Tagged(3000000, "Autres", "Général",   "http://b.org/rss") }

CompressAxes == {<<"country", "theme", "source">>, <<"country_guess", "theme">>}

CompressMethods == {"salience+diversity", "top-k"}

InitCompress ==
    /\ \E t \in 0..MaxTarget, m \in CompressMethods, ax \in CompressAxes :
          cfg = [DefaultCfg EXCEPT !.compress =
                    [target |-> t, method |-> m, diversity_axes |-> ax]]
    /\ now = 100
    /\ pc = "compress"
    /\ items \in ListsOf(CompressEntries, MaxCompressItems)
    /\ arg = <<>> /\ rows = <<>> /\ file = None
    /\ link = "" /\ canon = <<>>
    /\ NoFetch

NextCompress == Compress

SpecCompress == InitCompress /\ [][NextCompress]_vars

AfterCompress == pc = "write"

\* C1: for every input list (equal records included) and every target >= 0 the
\* compressor returns at most target entries and at least
\* min(target, len(items)).
C1_CompressedLength ==
    (AfterCompress /\ cfg.compress.target >= 0) =>
        /\ Len(items) <= cfg.compress.target
        /\ Len(items) >= Smaller(cfg.compress.target, Len(arg))

Diverse == cfg.compress.method = "salience+diversity"

\* the positions of the sorted list the scan admits, by the rule alone: from
\* position i on, with the positions `adm` admitted so far
RECURSIVE AdmittedBy(_, _, _, _, _)
AdmittedBy(sorted, i, adm, target, axes) ==
    IF i > Len(sorted) \/ Len(adm) >= target THEN adm
    ELSE LET fresh == \A n \in 1..Len(adm) :
                          AxisKey(sorted[adm[n]], axes) # AxisKey(sorted[i], axes)
         IN  AdmittedBy(sorted, i + 1,
                        IF fresh \/ Len(adm) < target \div 2 THEN Append(adm, i) ELSE adm,
                        target, axes)

\* the positions in 1..n that are not in adm, in their order
RECURSIVE RestOf(_, _, _)
RestOf(adm, i, n) ==
    IF i > n THEN <<>>
    ELSE (IF \E k \in 1..Len(adm) : adm[k] = i THEN <<>> ELSE <<i>>) \o RestOf(adm, i + 1, n)

\* the list the rule gives: the admitted entries, then the best of the others
ScanThenTopUp(its, target, axes) ==
    LET sorted == SortDesc(its)
        adm == AdmittedBy(sorted, 1, <<>>, target, axes)
        rest == RestOf(adm, 1, Len(sorted))
        picks == adm \o Take(rest, target - Len(adm))
    IN  [n \in 1..Len(picks) |-> sorted[picks[n]]]

PairwiseDifferent(its) ==
    \A i, j \in 1..Len(its) : i # j => its[i] # its[j]

\* the same statement for entries that differ from one another
C11_DifferentEntries ==
    (AfterCompress /\ Diverse /\ cfg.compress.target >= 1 /\ PairwiseDifferent(arg)) =>
        IF Len(arg) <= cfg.compress.target THEN items = arg
        ELSE items = ScanThenTopUp(arg, cfg.compress.target, cfg.compress.diversity_axes)

\* a scan that ends short of the target and is completed
C11_TopUpWitness ==
    /\ AfterCompress /\ Diverse /\ PairwiseDifferent(arg)
    /\ cfg.compress.target = 3 /\ Len(arg) = 4
    /\ Len(AdmittedBy(SortDesc(arg), 1, <<>>, 3, cfg.compress.diversity_axes)) = 2
    /\ Len(items) = 3

----------------------------------------------------------------------------
(* The inputs of score_items: lists of at most MaxScoreItems enriched entries,
   priorities, boost terms and half-lives *)

MaxScoreItems == 2

Unscored(it) == [f \in DOMAIN it \ {"score"} |-> it[f]]

Enriched(title, summary, source_url, published_at, country, theme) ==
    Unscored([MkEntry(title, "http://a.com/1", source_url, published_at, 0)
                 EXCEPT !["summary"] = summary, !["country_guess"] = country,
                        !["theme"] = theme])

ScoreEntries ==
    { Enriched("Iran talks", "IAEA sanctions", "https://www.a.com/feed", At(100), "Iran", "Nucléaire"),
      Enriched("Iran talks", "IAEA sanctions", "http://c.net/rss", NoDate, "Iran", "Nucléaire"),
      Enriched("Bakery wins award", "", "http://c.net/rss", NoDate, "Autres", "Général"),
      Enriched("Gaza aid", "", "http://b.org/rss", At(82), "Israël/Palestine", "Humanitaire"),
      Enriched("Bakery wins award", "", "http://b.org/rss", At(46), "Autres", "Général"),
      Enriched("Gaza aid", "relief", "https://www.a.com/feed", At(101), "Autres", "Général"),
      Enriched("Iran talks", "", "c.net", Junk, "Autres", "Diplomatie/Sanctions") }

PriorityTables ==
    { <<>>,
      <<<<"A.com", 1000>>, <<"b.org", -1000>>>>,
      <<<<"a.com", 0>>, <<"b.org", 1200>>, <<"B.ORG", 300>>>> }

BoostLists ==
    { <<>>,
      <<"iran", "gaza OR talks", "zzz">>,
      <<"IRAN", "sanc*ons", "ta", "a", "talks OR zzz", "i*n", "t">> }

HalfLives == {18, 0, -6}

InitScore ==
    /\ \E pr \in PriorityTables, b \in BoostLists, hl \in HalfLives :
          cfg = [DefaultCfg EXCEPT !.source_priorities = pr, !.boost_keywords = b,
                                   !.scoring = [freshness_half_life_hours |-> hl]]
    /\ now = 100
    /\ pc = "score_items"
    /\ items \in ListsOf(ScoreEntries, MaxScoreItems)
    /\ arg = <<>> /\ rows = <<>> /\ file = None
    /\ link = "" /\ canon = <<>>
    /\ NoFetch

NextScore == ScoreItems

SpecScore == InitScore /\ [][NextScore]_vars

AfterScore == pc = "dedupe"

\* the number of boost terms that match the text of the entry
Matching(it) ==
    Cardinality({t \in 1..Len(cfg.boost_keywords) :
                    TermMatches(it["title"] \o " " \o it["summary"], cfg.boost_keywords[t])})

UnknownSource(it) ==
    \A p \in 1..Len(cfg.source_priorities) :
        Lower(cfg.source_priorities[p][1]) # domain_from_source_url(it["source_url"])

\* C9: every score is >= 0, whatever the priorities and the half-life; an entry
\* with no timestamp and a source domain absent from source_priorities scores
\* 0.18 plus 0.3 per matching boost term (1.5 at most) plus the rule boost.
C9_ScoreNonNegative ==
    AfterScore =>
        \A i \in 1..Len(items) :
            /\ items[i]["score"] >= 0
            /\ (HasNoTimestamp(items[i]) /\ UnknownSource(items[i])) =>
                  items[i]["score"] =
                      180000 + Smaller(300000 * Matching(items[i]), 1500000)
                      + rule_boosts("", items[i]["country_guess"], items[i]["theme"])

C9_Witness ==
    /\ AfterScore
    /\ Len(items) = 2
    /\ cfg.scoring.freshness_half_life_hours = 18
    /\ items[1]["published_at"].k = "iso"
    /\ PriorityOf(cfg.source_priorities, items[1]["source"]) < 0
    /\ recency_score(items[1]["published_at"], 18, now) > 0
    /\ Matching(items[1]) = 1
    /\ items[1]["score"] = 300000 + 200000
    /\ HasNoTimestamp(items[2]) /\ UnknownSource(items[2])
    /\ Matching(items[2]) > 5
    /\ items[2]["score"] = 180000 + 1500000 + 500000

----------------------------------------------------------------------------
(* The inputs of project: lists of at most MaxProjectItems entries, some of
   them without some of their fields, and lists of field names *)

MaxProjectItems == 2

Without(it, fs) == [f \in DOMAIN it \ fs |-> it[f]]

FullEntry ==
    [MkEntry("Iran talks", "http://a.com/1", "https://www.a.com/feed", At(99), 2180050)
        EXCEPT !["entities"] = <<"IRGC">>, !["byline"] = "A. B."]

ProjectEntries ==
    { FullEntry,
      [FullEntry EXCEPT !["score"] = 180149],
      Without(FullEntry, {"entities", "summary"}),
      Without(FullEntry, {"score", "source_url", "url"}),
      Without(FullEntry, {"title", "published_at", "byline", "country_guess", "theme",
                          "source"}),
      Without(FullEntry, DOMAIN FullEntry) }

FieldLists ==
    { DefaultCfg.output.include_fields,
      <<"title", "url">>,
      <<>>,
      <<"title", "lang", "no_such_field", "entities">>,
      <<"score", "url", "source_url", "title", "title">> }

InitProject ==
    /\ \E fl \in FieldLists :
          cfg = [DefaultCfg EXCEPT !.output = [include_fields |-> fl]]
    /\ now = 100
    /\ pc = "project"
    /\ items \in ListsOf(ProjectEntries, MaxProjectItems)
    /\ arg = <<>> /\ rows = <<>> /\ file = None
    /\ link = "" /\ canon = <<>>
    /\ NoFetch

NextProject == Project

SpecProject == InitProject /\ [][NextProject]_vars

AfterProject == pc = "projected"

IncludeFields == {cfg.output.include_fields[n] : n \in 1..Len(cfg.output.include_fields)}

\* C10: project returns one object per entry; its keys are exactly the
\* include_fields names plus score and source_url; a requested field the entry
\* lacks is null (an empty list for entities) and one it has is copied.
C10_ProjectedKeys ==
    AfterProject =>
        /\ Len(rows) = Len(items)
        /\ \A i \in 1..Len(rows) :
              /\ DOMAIN rows[i] = IncludeFields \cup {"score", "source_url"}
              /\ \A f \in IncludeFields \ {"score"} :
                    IF f \in DOMAIN items[i] THEN rows[i][f] = items[i][f]
                    ELSE IF f = "entities" THEN rows[i][f] = <<>>
                    ELSE rows[i][f] = None
              /\ "source_url" \notin DOMAIN items[i] => rows[i]["source_url"] = None

C10_Witness ==
    /\ AfterProject
    /\ cfg.output.include_fields = <<"title", "lang", "no_such_field", "entities">>
    /\ Len(rows) = 2
    /\ DOMAIN items[1] = {}
    /\ rows[1] = [title |-> None, lang |-> None, no_such_field |-> None,
                  entities |-> <<>>, score |-> 0, source_url |-> None]
    /\ DOMAIN rows[2] = {"title", "lang", "no_such_field", "entities", "score", "source_url"}
    /\ rows[2]["no_such_field"] = None /\ rows[2]["title"] = "Iran talks"

----------------------------------------------------------------------------
(* The inputs of fetch_all: at most MaxFeeds feeds, each serving one of the
   documents of FeedDocs, and a per-feed cap of at most MaxPerFeed *)

MaxFeeds == 2

MaxPerFeed == 2

FeedUrls == <<"https://www.a.com/feed", "http://b.org/rss", "http://c.net/rss">>

DocA ==
    [ status |-> "ok",
      feed |-> [link |-> "https://www.a.com/", title |-> "A  News", language |-> "en-US"],
      entries |->
        << [title |-> " Iran talks resume", link |-> "http://a.com/1?utm_source=rss",
            summary |-> "<p>IAEA  report</p>", published |-> At(99), author |-> "A. B."],
           [title |-> "  ", link |-> "http://a.com/2", published |-> Junk,
            updated_parsed |-> At(98)],
           [title |-> "Gaza aid", link |-> "http://a.com/3", description |-> "relief",
            published |-> Junk, updated_parsed |-> At(50)] >> ]

DocB ==
    [ status |-> "ok",
      feed |-> [title |-> ""],
      entries |->
        << [title |-> "Gaza aid", link |-> "?"],
           [title |-> "Frappes sur Gaza", link |-> "http://b.org/2?gclid=7&id=4"],
           [title |-> "Iran talks resume", link |-> "http://a.com/1"] >> ]

DocBroken ==
    [ status |-> "ok",
      feed |-> [link |-> "http://c.net/"],
      entries |->
        << [title |-> "Bakery wins award", link |-> "http://c.net/1"],
           [broken |-> TRUE] >> ]

DocRaises == [status |-> "raise", feed |-> <<>>, entries |-> <<>>]

DocEmpty == [status |-> "ok", feed |-> <<>>, entries |-> <<>>]

FeedDocs == {DocA, DocB, DocBroken, DocRaises, DocEmpty}

InitFetchWith(c, docs) ==
    /\ cfg = c
    /\ served = docs
    /\ submitted = 0
    /\ wpc = [i \in 1..Len(docs) |-> "idle"]
    /\ wi = [i \in 1..Len(docs) |-> 1]
    /\ wentries = [i \in 1..Len(docs) |-> <<>>]
    /\ out = <<>>
    /\ taken = {}
    /\ pc = "fetch_all"
    /\ now = 100
    /\ items = <<>> /\ arg = <<>> /\ rows = <<>> /\ file = None
    /\ link = "" /\ canon = <<>>

InitFetch ==
    \E n \in 0..MaxFeeds, m \in 0..MaxPerFeed :
        \E docs \in [1..n -> FeedDocs] :
            InitFetchWith([DefaultCfg EXCEPT !.feeds = SubSeq(FeedUrls, 1, n),
                                             !.per_feed_max = m], docs)

NextFetch == FetchStep

SpecFetch == InitFetch /\ [][NextFetch]_vars

Returned == pc = "language_filter"

\* a feed fails when its parse raises or when the loop meets, among the items
\* it reads, one that makes it raise
FailsInLoop(i) ==
    /\ served[i].status = "ok"
    /\ \E k \in 1..Smaller(Len(served[i].entries), cfg.per_feed_max) :
           Broken(served[i].entries[k])

\* C7: a failure at any point inside one feed's worker is never raised to the
\* caller of fetch_all: no exception leaves the collection loop, hence the run
\* is not aborted.
C7_FailureNeverRaised == pc \notin {"unwinding", "crashed"}

\* the part of C7 the code keeps: a feed whose parse raises contributes no
\* entry, and fetch_all returns what the other feeds retained
C7_ParseFailureIsolated ==
    Returned =>
        \A i \in Feeds :
            served[i].status = "raise" => wentries[i] = <<>> /\ i \in taken

\* what one feed retains from its first per_feed_max items, item after item
RECURSIVE RetainedFrom(_, _, _)
RetainedFrom(i, k, last) ==
    IF k > last THEN <<>>
    ELSE LET it == EntryOf(served[i], cfg.feeds[i], served[i].entries[k])
         IN  (IF it["title"] # "" /\ it["url"] # "" THEN <<it>> ELSE <<>>)
             \o RetainedFrom(i, k + 1, last)

RetainedOf(i) ==
    IF served[i].status = "raise" THEN <<>>
    ELSE RetainedFrom(i, 1, Smaller(Len(served[i].entries), cfg.per_feed_max))

\* the lists of the feeds, joined in the order `order`
RECURSIVE JoinedIn(_, _)
JoinedIn(order, k) ==
    IF k > Len(order) THEN <<>>
    ELSE RetainedOf(order[k]) \o JoinedIn(order, k + 1)

FeedOrders == {o \in [Feeds -> Feeds] : \A i \in Feeds : \E k \in Feeds : o[k] = i}

\* C8: under every interleaving of the workers, the list fetch_all returns is,
\* for some order of the feeds, the concatenation of what each feed retained
\* from its first per_feed_max items: nothing lost, nothing twice, each feed's
\* entries together and in feed order.
C8_ReturnsEachFeedOnce ==
    Returned => \E o \in FeedOrders : out = JoinedIn(o, 1) /\ items = out

\* two feeds that both retain entries, one of them dropping an item and
\* cutting its list at per_feed_max, returned second feed first
C8_Witness ==
    /\ Returned
    /\ Len(cfg.feeds) = 2
    /\ RetainedOf(1) # <<>> /\ RetainedOf(2) # <<>>
    /\ RetainedOf(1) # RetainedOf(2)
    /\ Len(served[2].entries) > cfg.per_feed_max
    /\ Len(RetainedOf(2)) < cfg.per_feed_max
    /\ out = RetainedOf(2) \o RetainedOf(1)

\* a parse that raises next to a feed that retains entries: fetch_all returns
C7_ParseWitness ==
    /\ Returned
    /\ \E i, j \in Feeds : served[i].status = "raise" /\ RetainedOf(j) # <<>>
    /\ out # <<>>

----------------------------------------------------------------------------
(* The whole run: collect and the write of news_cache.json, from the default
   configuration or a stricter one, over the feeds of SpecFetch *)

StrictCfg ==
    [DefaultCfg EXCEPT !.block_keywords = <<"bakery">>,
                       !.boost_keywords = <<"gaza OR iran">>,
                       !.overall_max = 3,
                       !.compress = [target |-> 2, method |-> "salience+diversity",
                                     diversity_axes |-> <<"country_guess", "theme">>]]

RunCfgs == {DefaultCfg, StrictCfg}

Init ==
    \E n \in 0..MaxFeeds, m \in 0..MaxPerFeed, c \in RunCfgs :
        \E docs \in [1..n -> FeedDocs] :
            InitFetchWith([c EXCEPT !.feeds = SubSeq(FeedUrls, 1, n),
                                    !.per_feed_max = m], docs)

Next ==
    \/ FetchStep
    \/ LanguageFilter
    \/ BlocksFilter
    \/ Enrich
    \/ Tick
    \/ ScoreItems
    \/ Dedupe
    \/ SortCap
    \/ Compress
    \/ Write

Spec == Init /\ [][Next]_vars

Done == pc = "done"

\* C4: at the end of a run every object of news_cache.json holds only the
\* fields of output.include_fields, plus score and source_url: the file is the
\* projection of the entries that survived compression.
C4_FileIsProjection ==
    Done =>
        /\ \A k \in 1..Len(file) : DOMAIN file[k] \subseteq IncludeFields \cup Bookkeeping
        /\ file = project(items, cfg)

\* what the code writes: the entries of collect as they are, with the fields of
\* every stage
C4_FileIsCollected == Done => file = items

C4_WrittenWitness ==
    /\ Done
    /\ file # <<>>
    /\ \A k \in 1..Len(file) : {"lang", "language_hint"} \subseteq DOMAIN file[k]

----------------------------------------------------------------------------
(* The last three steps of collect (dedupe, sort and cap, compress) on lists of
   at most MaxRankItems scored entries *)

MaxRankItems == 4

MaxRankTarget == 3

Ranked(title, url, source_url, score, country) ==
    [MkEntry(title, url, source_url, NoDate, score) EXCEPT !["country_guess"] = country]

RankEntries ==
    { Ranked("Iran talks resume", "http://a.com/1", "https://www.a.com/feed", 9000000, "Iran"),
      Ranked("Iran sanctions",    "http://a.com/2", "https://www.a.com/feed", 7000000, "Iran"),
      Ranked("Tehran statement",  "http://a.com/3", "https://www.a.com/feed", 6000000, "Iran"),
      Ranked("Beirut port",       "http://b.org/4", "http://b.org/rss",       5000000, "Liban") }

RankCaps == {120, 3}

InitRank ==
    /\ \E t \in 0..MaxRankTarget, m \in CompressMethods, cap \in RankCaps :
          cfg = [DefaultCfg EXCEPT !.overall_max = cap,
                                   !.compress = [target |-> t, method |-> m,
                                                 diversity_axes |-> <<"country", "theme", "source">>]]
    /\ now = 100
    /\ pc = "dedupe"
    /\ items \in ListsOf(RankEntries, MaxRankItems)
    /\ arg = <<>> /\ rows = <<>> /\ file = None
    /\ link = "" /\ canon = <<>>
    /\ NoFetch

NextRank ==
    \/ Dedupe
    \/ SortCap
    \/ Compress

SpecRank == InitRank /\ [][NextRank]_vars

NonIncreasing(its) ==
    \A i \in 1..(Len(its) - 1) : its[i]["score"] >= its[i + 1]["score"]

\* what the scan of compress_diverse admitted from the list compress was given
ScanOf(its) ==
    GreedyScan(SortDesc(its), 1, [chosen |-> <<>>, seen |-> <<>>],
               cfg.compress.target, cfg.compress.diversity_axes).chosen

\* the branch of the compressor in which the scan is followed by a top-up
ToppedUp ==
    /\ Diverse
    /\ Len(arg) > cfg.compress.target
    /\ Len(ScanOf(arg)) < cfg.compress.target

\* C12 as stated: the list collect returns is ordered by non-increasing score,
\* whichever branch of the compressor produced it.
C12_NonIncreasingScore == AfterCompress => NonIncreasing(items)

\* C12: the list collect returns is ordered by non-increasing score when the
\* compressor returned its input unchanged, stopped after the scan or took the
\* plain top-k; when the scan is followed by a top-up the list is the entries of
\* the scan in non-increasing order followed by the topped-up entries in
\* non-increasing order.
C12_OrderedPerBranch ==
    AfterCompress =>
        IF ToppedUp
        THEN LET n == Len(ScanOf(arg))
             IN  /\ n <= Len(items)
                 /\ NonIncreasing(SubSeq(items, 1, n))
                 /\ NonIncreasing(SubSeq(items, n + 1, Len(items)))
        ELSE NonIncreasing(items)

\* a top-up that puts a higher score after a lower one
C12_Witness ==
    /\ AfterCompress
    /\ ToppedUp
    /\ Len(items) = 3
    /\ Len(ScanOf(arg)) = 2
    /\ items[3]["score"] > items[2]["score"]

=============================================================================
